---- MODULE Spec2Model ----
(***************************************************************************)
(* Model of the Gemini analysis backend:                                   *)
(*   app/api/routers/gemini.py     request validation, /analyze, /health   *)
(*   app/services/gemini_service.py memoized client, retry loop, health    *)
(*   app/api/routers/health.py     readiness probe                         *)
(*                                                                         *)
(* Python strings are sequences of one-character strings, so startswith,   *)
(* strip and the `in` substring test are computed, not assumed.  All       *)
(* handlers are `async def`, so they run on one event loop: a handler      *)
(* holds the loop (running = t) from dispatch until it awaits or returns.  *)
(***************************************************************************)
EXTENDS Integers, Sequences, FiniteSets, TLC

\* ------------------------------------------------------------------ bounds
NumTasks == 2          \* request slots that can be in flight together
MaxFailures == 2       \* saturation of the failed-construction counter
MaxConstructions == 2  \* saturation of the successful-construction counter

Tasks == 1..NumTasks

\* ------------------------------------------------------- program constants
MAX_RETRIES == 3
INITIAL_RETRY_DELAY == 2
MAX_FILE_SIZE == 20 * 1024 * 1024

\* ------------------------------------------------------------ Python values
\* Python None where a str is expected; differs from every string, whose
\* elements are single characters.
None == <<"None">>
\* file.size is None
NoSize == -1
\* no client object
NoClient == 0
\* a memoized exception; lru_cache never stores one
CachedError == -1

Whitespace == {" ", "\t", "\n", "\r"}

\* bool(s) for an Optional[str]
Truthy(s) == s # None /\ Len(s) > 0

\* s.startswith(p)
StartsWith(s, p) == Len(s) >= Len(p) /\ SubSeq(s, 1, Len(p)) = p

\* p in s
Contains(s, p) == \E i \in 1..(Len(s) - Len(p) + 1) : SubSeq(s, i, i + Len(p) - 1) = p

RECURSIVE LStrip(_)
LStrip(s) == IF Len(s) > 0 /\ Head(s) \in Whitespace THEN LStrip(Tail(s)) ELSE s

RECURSIVE RStrip(_)
RStrip(s) == IF Len(s) > 0 /\ s[Len(s)] \in Whitespace THEN RStrip(SubSeq(s, 1, Len(s) - 1)) ELSE s

\* s.strip()
Strip(s) == RStrip(LStrip(s))

ImagePrefix == <<"i", "m", "a", "g", "e", "/">>
Marker429 == <<"4", "2", "9">>
MarkerExhausted == <<"R", "E", "S", "O", "U", "R", "C", "E", "_", "E", "X", "H", "A", "U", "S", "T", "E", "D">>

\* ------------------------------------------------------------ message texts
\* the source's literals are Japanese; each is one opaque token here, in
\* English, and a formatted message is a prefix token followed by the
\* characters of the embedded error
DetailImagesOnly == <<"images only are supported">>
DetailTooLarge == <<"file size must be 20MB or less">>
DetailEmptyPrompt == <<"prompt is empty">>
DetailGeminiUnhealthy == <<"Gemini API connection error">>
DetailNotReady == <<"Service not ready">>
PrefixInitError == <<"Gemini API init error: ">>
PrefixAnalyzeError == <<"Gemini API analysis error: ">>
Placeholder == <<"could not obtain analysis result">>
ErrNoProject == <<"GOOGLE_CLOUD_PROJECT is not set">>
ErrNoLocation == <<"VERTEX_AI_LOCATION is not set">>
ErrClientCtor == <<"genai.Client failed">>
ErrClock == <<"clock failed">>

\* ------------------------------------------------------------------- inputs
ContentTypes == { None, <<>>, <<"t", "/", "p">>, <<"i", "m", "a", "g", "e">>,
                  <<"i", "m", "a", "g", "e", "/", "x">> }
Sizes == { NoSize, 0, MAX_FILE_SIZE, MAX_FILE_SIZE + 1 }
Prompts == { <<>>, <<" ", "\t">>, <<" ", "a", " ">> }
EnvValues == { None, <<>>, <<"v">> }
\* str(e) of the exception raised by generate_content
RateLimitErrors == { <<"4", "2", "9", " ", "q">>, <<"x", " ">> \o MarkerExhausted }
OtherErrors == { <<"4", "2", " ", "9">>, <<"5", "0", "0">> }
ErrorStrings == RateLimitErrors \cup OtherErrors
\* response.text
Texts == { None, <<>>, <<"o", "k">> }

\* ------------------------------------------------------------ HTTP results
NoResponse == [status |-> 0, detail |-> <<>>, result |-> <<>>, rstatus |-> ""]

\* raise HTTPException(status_code=code, detail=detail)
HttpError(code, detail) == [status |-> code, detail |-> detail, result |-> <<>>, rstatus |-> ""]

\* a 200 response whose body carries `result` and `status`
HttpOk(result, rstatus) == [status |-> 200, detail |-> <<>>, result |-> result, rstatus |-> rstatus]

\* --------------------------------------------- routers/gemini.py: validation
\* variant: only a missing content type is rejected
ContentTypeInvalidMissingOnly(content_type) == ~Truthy(content_type)

ContentTypeInvalid(content_type) == ~Truthy(content_type) \/ ~StartsWith(content_type, ImagePrefix)

\* variant: `>=` for `>`
SizeTooLargeInclusive(size) == (size # NoSize /\ size # 0) /\ size >= MAX_FILE_SIZE

SizeTooLarge(size) == (size # NoSize /\ size # 0) /\ size > MAX_FILE_SIZE

\* variant: the prompt is measured without strip()
PromptIsEmptyNoStrip(prompt) == Len(prompt) = 0

PromptIsEmpty(prompt) == Len(Strip(prompt)) = 0

\* variant: the size check is missing
ValidateRequestNoSizeCheck(content_type, size, prompt) ==
    IF ContentTypeInvalid(content_type) THEN HttpError(400, DetailImagesOnly)
    ELSE IF PromptIsEmpty(prompt) THEN HttpError(400, DetailEmptyPrompt)
    ELSE NoResponse

\* variant: the prompt is checked before the file
ValidateRequestPromptFirst(content_type, size, prompt) ==
    IF PromptIsEmpty(prompt) THEN HttpError(400, DetailEmptyPrompt)
    ELSE IF ContentTypeInvalid(content_type) THEN HttpError(400, DetailImagesOnly)
    ELSE IF SizeTooLarge(size) THEN HttpError(400, DetailTooLarge)
    ELSE NoResponse

\* the three checks of the endpoint, in source order; NoResponse = all passed
ValidateRequest(content_type, size, prompt) ==
    IF ContentTypeInvalid(content_type) THEN HttpError(400, DetailImagesOnly)
    ELSE IF SizeTooLarge(size) THEN HttpError(400, DetailTooLarge)
    ELSE IF PromptIsEmpty(prompt) THEN HttpError(400, DetailEmptyPrompt)
    ELSE NoResponse

\* ------------------------------------- services/gemini_service.py: client
\* variant: VERTEX_AI_LOCATION is not checked
ClientBodyNoLocationCheck(e, ctorOk) ==
    IF ~Truthy(e.project) THEN [ok |-> FALSE, detail |-> PrefixInitError \o ErrNoProject]
    ELSE IF ~ctorOk THEN [ok |-> FALSE, detail |-> PrefixInitError \o ErrClientCtor]
    ELSE [ok |-> TRUE, detail |-> <<>>]

\* body of get_gemini_client: both variables, then genai.Client(...); every
\* exception is re-raised as HTTPException(500)
ClientBody(e, ctorOk) ==
    IF ~Truthy(e.project) THEN [ok |-> FALSE, detail |-> PrefixInitError \o ErrNoProject]
    ELSE IF ~Truthy(e.location) THEN [ok |-> FALSE, detail |-> PrefixInitError \o ErrNoLocation]
    ELSE IF ~ctorOk THEN [ok |-> FALSE, detail |-> PrefixInitError \o ErrClientCtor]
    ELSE [ok |-> TRUE, detail |-> <<>>]

\* variant: no memoization, every call runs the body
LruHitNever(c) == FALSE

\* lru_cache: an entry exists for the (empty) argument tuple
LruHit(c) == c # NoClient

\* variant: a call that raised is memoized too
LruStoreAlways(c, ok, handle) == IF ok THEN handle ELSE CachedError

\* variant: the decorator is missing and nothing is stored
LruStoreNever(c, ok, handle) == c

\* lru_cache stores the value of a call that returned, nothing when it raised
LruStore(c, ok, handle) == IF ok THEN handle ELSE c

\* identity of the next object genai.Client(...) would create
NewHandle(n) == IF n < MaxConstructions THEN n + 1 ELSE MaxConstructions

\* get_gemini_client() under @lru_cache(maxsize=1): c the cache, e the
\* environment, ctorOk whether genai.Client(...) would succeed, n the number
\* of clients constructed so far
GetGeminiClient(c, e, ctorOk, n) ==
    IF LruHit(c)
    THEN [hit |-> TRUE, ok |-> c # CachedError, handle |-> IF c # CachedError THEN c ELSE NoClient,
          cache |-> c, detail |-> IF c # CachedError THEN <<>> ELSE PrefixInitError,
          exc |-> IF c # CachedError THEN "" ELSE "HTTPException"]
    ELSE LET b == ClientBody(e, ctorOk) IN
         [hit |-> FALSE, ok |-> b.ok, handle |-> IF b.ok THEN NewHandle(n) ELSE NoClient,
          cache |-> LruStore(c, b.ok, NewHandle(n)), detail |-> b.detail,
          exc |-> IF b.ok THEN "" ELSE "HTTPException"]

\* classes caught by `except Exception`
ExceptionSubclasses == {"Exception", "ValueError", "HTTPException"}

\* variant: `except ValueError`
HealthCheckCatchesValueError(exc) == exc = "ValueError"

HealthCheckCatches(exc) == exc \in ExceptionSubclasses

\* health_check(): r the outcome of its get_gemini_client() call
HealthCheck(r) ==
    IF r.ok THEN [raised |-> FALSE, value |-> TRUE]
    ELSE IF HealthCheckCatches(r.exc) THEN [raised |-> FALSE, value |-> FALSE]
    ELSE [raised |-> TRUE, value |-> FALSE]

\* --------------------------------- services/gemini_service.py: retry loop
\* variant: `"429" in error_str or "RESOURCE_EXHAUSTED"`, whose second
\* operand is a non-empty string and so always true
IsRateLimitTruthyLiteral(error_str) == Contains(error_str, Marker429) \/ Len(MarkerExhausted) > 0

\* variant: only the numeric marker is looked for
IsRateLimit429Only(error_str) == Contains(error_str, Marker429)

IsRateLimit(error_str) == Contains(error_str, Marker429) \/ Contains(error_str, MarkerExhausted)

\* variant: `attempt < MAX_RETRIES`
ShouldRetryOffByOne(attempt) == attempt < MAX_RETRIES

ShouldRetry(attempt) == attempt < MAX_RETRIES - 1

\* variant: a constant delay, no exponential growth
RetryDelayConstant(attempt) == INITIAL_RETRY_DELAY

\* variant: the exponent counts attempts from 1
RetryDelayShifted(attempt) == INITIAL_RETRY_DELAY * (2 ^ (attempt + 1))

RetryDelay(attempt) == INITIAL_RETRY_DELAY * (2 ^ attempt)

\* variant: `response.text if response.text is not None else ...`
ResultTextNoneOnly(text) == IF text # None THEN text ELSE Placeholder

ResultText(text) == IF Truthy(text) THEN text ELSE Placeholder

\* variant: the message does not format the exception
ErrorDetailNoDescription(last_exception) == PrefixAnalyzeError

\* detail of the HTTPException raised after the loop
ErrorDetail(last_exception) == PrefixAnalyzeError \o last_exception

\* --------------------------------------------------- routers: the endpoints
\* variant: the `not` of `if not is_healthy` is dropped
GeminiHealthResponseInverted(h) ==
    IF h.raised THEN HttpError(500, <<>>)
    ELSE IF h.value THEN HttpError(503, DetailGeminiUnhealthy)
    ELSE HttpOk(<<>>, "healthy")

\* gemini_health(): h the outcome of health_check(); an exception escaping
\* health_check would surface as the framework's 500
GeminiHealthResponse(h) ==
    IF h.raised THEN HttpError(500, <<>>)
    ELSE IF ~h.value THEN HttpError(503, DetailGeminiUnhealthy)
    ELSE HttpOk(<<>>, "healthy")

\* readiness_probe(): 503 only when computing the body itself raises
ReadinessResponse(bodyRaises) ==
    IF bodyRaises THEN HttpError(503, DetailNotReady) ELSE HttpOk(<<>>, "ready")

\* -------------------------------------------------------------------- state
VARIABLES
    env,            \* os.environ: GOOGLE_CLOUD_PROJECT, VERTEX_AI_LOCATION; set
                    \* when the process starts, nothing in the program writes it
    cache,          \* the lru_cache entry of get_gemini_client
    constructions,  \* clients constructed so far (saturating)
    failures,       \* get_gemini_client calls that raised so far (saturating)
    running,        \* the task holding the event loop, 0 when the loop is idle
    task,           \* per request slot: the handler's position and locals
    lastCall        \* the latest get_gemini_client call of the running handler

vars == <<env, cache, constructions, failures, running, task, lastCall>>

IdleTask ==
    [kind |-> "none", pc |-> "idle", content_type |-> None, size |-> NoSize, prompt |-> <<>>,
     client |-> NoClient, read |-> FALSE, attempt |-> 0, last_exception |-> None,
     retry_delay |-> 0, history |-> <<>>, sleeps |-> <<>>,
     health |-> [raised |-> FALSE, value |-> FALSE], response |-> NoResponse]

NoCall == [made |-> FALSE, hit |-> FALSE, ctorOk |-> FALSE, ok |-> FALSE, handle |-> NoClient,
           cacheBefore |-> NoClient, failuresBefore |-> 0]

Init ==
    /\ env \in [project : EnvValues, location : EnvValues]
    /\ cache = NoClient
    /\ constructions = 0
    /\ failures = 0
    /\ running = 0
    /\ task = [t \in Tasks |-> IdleTask]
    /\ lastCall = NoCall

\* ------------------------------------------------------------------ actions
Min(a, b) == IF a < b THEN a ELSE b

\* the bookkeeping common to every get_gemini_client() call with outcome r
RecordCall(r, ctorOk) ==
    /\ cache' = r.cache
    /\ constructions' = IF ~r.hit /\ r.ok THEN NewHandle(constructions) ELSE constructions
    /\ failures' = IF r.ok THEN failures ELSE Min(failures + 1, MaxFailures)
    /\ lastCall' = [made |-> TRUE, hit |-> r.hit, ctorOk |-> ctorOk, ok |-> r.ok,
                    handle |-> r.handle, cacheBefore |-> cache, failuresBefore |-> failures]

\* the framework dispatches POST /api/v1/gemini/analyze to a free slot
ReceiveAnalyze(t, ct, sz, pr) ==
    /\ running = 0
    /\ task[t].pc = "idle"
    /\ task' = [task EXCEPT ![t] = [IdleTask EXCEPT !.kind = "analyze", !.pc = "validate",
                                       !.content_type = ct, !.size = sz, !.prompt = pr]]
    /\ running' = t
    /\ UNCHANGED <<env, cache, constructions, failures, lastCall>>

\* the framework dispatches GET /api/v1/gemini/health
ReceiveGeminiHealth(t) ==
    /\ running = 0
    /\ task[t].pc = "idle"
    /\ task' = [task EXCEPT ![t] = [IdleTask EXCEPT !.kind = "gemini_health", !.pc = "health"]]
    /\ running' = t
    /\ UNCHANGED <<env, cache, constructions, failures, lastCall>>

\* the framework dispatches GET /health/readiness
ReceiveReadiness(t) ==
    /\ running = 0
    /\ task[t].pc = "idle"
    /\ task' = [task EXCEPT ![t] = [IdleTask EXCEPT !.kind = "readiness", !.pc = "readiness"]]
    /\ running' = t
    /\ UNCHANGED <<env, cache, constructions, failures, lastCall>>

\* routers/gemini.py analyze_image: the three checks, then the call of the
\* service
Validate(t) ==
    /\ running = t
    /\ task[t].pc = "validate"
    /\ LET v == ValidateRequest(task[t].content_type, task[t].size, task[t].prompt) IN
       task' = [task EXCEPT ![t] = IF v # NoResponse
                                    THEN [@ EXCEPT !.pc = "done", !.response = v]
                                    ELSE [@ EXCEPT !.pc = "get_client"]]
    /\ UNCHANGED <<env, cache, constructions, failures, running, lastCall>>

\* service analyze_image: client = get_gemini_client()
ServiceGetClient(t, ctorOk) ==
    /\ running = t
    /\ task[t].pc = "get_client"
    /\ LET r == GetGeminiClient(cache, env, ctorOk, constructions) IN
       /\ RecordCall(r, ctorOk)
       /\ task' = [task EXCEPT ![t] = IF r.ok
                                       THEN [@ EXCEPT !.pc = "read", !.client = r.handle]
                                       ELSE [@ EXCEPT !.pc = "done",
                                                      !.response = HttpError(500, r.detail)]]
    /\ UNCHANGED <<env, running>>

\* image_bytes = await file.read() on an in-memory upload: returns without
\* suspending; then the Part is built and the loop starts at attempt 0
FileReadInMemory(t) ==
    /\ running = t
    /\ task[t].pc = "read"
    /\ task' = [task EXCEPT ![t] = [@ EXCEPT !.pc = "call", !.read = TRUE, !.attempt = 0,
                                                !.last_exception = None]]
    /\ UNCHANGED <<env, cache, constructions, failures, running, lastCall>>

\* image_bytes = await file.read() on an upload spooled to disk: the read
\* runs in the thread pool and the coroutine gives up the event loop
FileReadSuspend(t) ==
    /\ running = t
    /\ task[t].pc = "read"
    /\ task' = [task EXCEPT ![t] = [@ EXCEPT !.pc = "read_wait"]]
    /\ running' = 0
    /\ lastCall' = NoCall
    /\ UNCHANGED <<env, cache, constructions, failures>>

\* the read finished and the event loop resumes the coroutine
FileReadResume(t) ==
    /\ running = 0
    /\ task[t].pc = "read_wait"
    /\ task' = [task EXCEPT ![t] = [@ EXCEPT !.pc = "call", !.read = TRUE, !.attempt = 0,
                                                !.last_exception = None]]
    /\ running' = t
    /\ UNCHANGED <<env, cache, constructions, failures, lastCall>>

\* the for statement takes its next value, or the loop ends and the code
\* after it runs
ForNext(tk) ==
    IF tk.attempt + 1 < MAX_RETRIES
    THEN [tk EXCEPT !.pc = "call", !.attempt = tk.attempt + 1]
    ELSE [tk EXCEPT !.pc = "raise"]

\* generate_content returns: the try body up to the return statement
GenerateSuccess(t, text) ==
    /\ running = t
    /\ task[t].pc = "call"
    /\ task' = [task EXCEPT ![t] =
                   [@ EXCEPT !.pc = "done",
                             !.history = Append(@, [ok |-> TRUE, val |-> text]),
                             !.response = HttpOk(ResultText(text), "success")]]
    /\ UNCHANGED <<env, cache, constructions, failures, running, lastCall>>

\* generate_content raises an exception whose str() is error_str: the
\* except block
GenerateFailure(t, error_str) ==
    /\ running = t
    /\ task[t].pc = "call"
    /\ LET tk == [task[t] EXCEPT !.last_exception = error_str,
                                 !.history = Append(@, [ok |-> FALSE, val |-> error_str])] IN
       task' = [task EXCEPT ![t] =
                   IF IsRateLimit(error_str)
                   THEN IF ShouldRetry(tk.attempt)
                        THEN [tk EXCEPT !.pc = "sleep", !.retry_delay = RetryDelay(tk.attempt)]
                        ELSE ForNext(tk)
                   ELSE [tk EXCEPT !.pc = "raise"]]
    /\ UNCHANGED <<env, cache, constructions, failures, running, lastCall>>

\* time.sleep(retry_delay); continue
Sleep(t) ==
    /\ running = t
    /\ task[t].pc = "sleep"
    /\ task' = [task EXCEPT ![t] = ForNext([@ EXCEPT !.sleeps = Append(@, task[t].retry_delay)])]
    /\ UNCHANGED <<env, cache, constructions, failures, running, lastCall>>

\* the code after the loop: raise HTTPException(500, error_detail)
RaiseTerminal(t) ==
    /\ running = t
    /\ task[t].pc = "raise"
    /\ task' = [task EXCEPT ![t] =
                   [@ EXCEPT !.pc = "done",
                             !.response = HttpError(500, ErrorDetail(task[t].last_exception))]]
    /\ UNCHANGED <<env, cache, constructions, failures, running, lastCall>>

\* routers/gemini.py gemini_health: health_check(), then 503 or the body
GeminiHealth(t, ctorOk) ==
    /\ running = t
    /\ task[t].pc = "health"
    /\ LET r == GetGeminiClient(cache, env, ctorOk, constructions)
           h == HealthCheck(r) IN
       /\ RecordCall(r, ctorOk)
       /\ task' = [task EXCEPT ![t] = [@ EXCEPT !.pc = "done", !.health = h,
                                                   !.response = GeminiHealthResponse(h)]]
    /\ UNCHANGED <<env, running>>

\* routers/health.py readiness_probe
Readiness(t, bodyRaises) ==
    /\ running = t
    /\ task[t].pc = "readiness"
    /\ task' = [task EXCEPT ![t] = [@ EXCEPT !.pc = "done",
                                                !.last_exception = IF bodyRaises THEN ErrClock ELSE None,
                                                !.response = ReadinessResponse(bodyRaises)]]
    /\ UNCHANGED <<env, cache, constructions, failures, running, lastCall>>

\* the handler returns or raises to the framework, which sends the response;
\* the slot and the event loop are free again
Return(t) ==
    /\ running = t
    /\ task[t].pc = "done"
    /\ task' = [task EXCEPT ![t] = IdleTask]
    /\ running' = 0
    /\ lastCall' = NoCall
    /\ UNCHANGED <<env, cache, constructions, failures>>

Next ==
    \/ \E t \in Tasks, ct \in ContentTypes, sz \in Sizes, pr \in Prompts : ReceiveAnalyze(t, ct, sz, pr)
    \/ \E t \in Tasks : ReceiveGeminiHealth(t)
    \/ \E t \in Tasks : ReceiveReadiness(t)
    \/ \E t \in Tasks : Validate(t)
    \/ \E t \in Tasks, ctorOk \in BOOLEAN : ServiceGetClient(t, ctorOk)
    \/ \E t \in Tasks : FileReadInMemory(t)
    \/ \E t \in Tasks : FileReadSuspend(t)
    \/ \E t \in Tasks : FileReadResume(t)
    \/ \E t \in Tasks, text \in Texts : GenerateSuccess(t, text)
    \/ \E t \in Tasks, error_str \in ErrorStrings : GenerateFailure(t, error_str)
    \/ \E t \in Tasks : Sleep(t)
    \/ \E t \in Tasks : RaiseTerminal(t)
    \/ \E t \in Tasks, ctorOk \in BOOLEAN : GeminiHealth(t, ctorOk)
    \/ \E t \in Tasks, bodyRaises \in BOOLEAN : Readiness(t, bodyRaises)
    \/ \E t \in Tasks : Return(t)

Spec == Init /\ [][Next]_vars

TypeOK ==
    /\ env \in [project : EnvValues, location : EnvValues]
    /\ cache \in 0..MaxConstructions
    /\ constructions \in 0..MaxConstructions
    /\ failures \in 0..MaxFailures
    /\ running \in 0..NumTasks
    /\ \A t \in Tasks : task[t].pc \in {"idle", "validate", "get_client", "read", "read_wait",
                                         "call", "sleep", "raise", "health", "readiness", "done"}

\* =================================================================== claims
\* the history of an invocation consists of rate-limit failures only
OnlyRateLimitFailures(h) == \A i \in 1..Len(h) : ~h[i].ok /\ h[i].val \in RateLimitErrors

RECURSIVE SumSeq(_)
SumSeq(q) == IF Len(q) = 0 THEN 0 ELSE Head(q) + SumSeq(Tail(q))

\* C1: an invocation whose upstream calls all fail with a rate-limit signal
\* makes exactly 3 calls and waits exactly twice, 2 then 4 time-units: after
\* the 1st and 2nd failure it waits and calls again, after the 3rd it neither
\* waits nor calls but ends with HTTP 500.
C1_RateLimitExhausted ==
    \A t \in Tasks :
        LET tk == task[t]
            h == tk.history IN
        (tk.kind = "analyze" /\ Len(h) > 0 /\ OnlyRateLimitFailures(h)) =>
            /\ Len(h) <= 3
            /\ Len(h) = 1 => \/ tk.pc = "sleep" /\ tk.sleeps = <<>> /\ tk.retry_delay = 2
                             \/ tk.pc = "call" /\ tk.sleeps = <<2>>
            /\ Len(h) = 2 => \/ tk.pc = "sleep" /\ tk.sleeps = <<2>> /\ tk.retry_delay = 4
                             \/ tk.pc = "call" /\ tk.sleeps = <<2, 4>>
            /\ Len(h) = 3 => /\ tk.pc \in {"raise", "done"}
                             /\ tk.sleeps = <<2, 4>>
                             /\ tk.pc = "done" => tk.response.status = 500

C1_Witness ==
    \E t \in Tasks :
        /\ task[t].pc = "done"
        /\ Len(task[t].history) = 3
        /\ OnlyRateLimitFailures(task[t].history)
        /\ task[t].response.status = 500
        /\ task[t].sleeps = <<2, 4>>

\* two rate-limit failures followed by a successful call
FailFailSuccess(h) ==
    /\ Len(h) = 3
    /\ OnlyRateLimitFailures(SubSeq(h, 1, 2))
    /\ h[3].ok

\* C2: when attempts 1 and 2 fail with a rate-limit signal and attempt 3
\* succeeds, the invocation is finished with the successful result and status
\* success, it waited 2 then 4 time-units (at least 6 in total) before the
\* third call; a successful call is always the last call and no wait follows.
C2_SucceedsOnThird ==
    \A t \in Tasks :
        LET tk == task[t]
            h == tk.history IN
        /\ FailFailSuccess(h) =>
              /\ tk.pc = "done"
              /\ tk.response.status = 200
              /\ tk.response.rstatus = "success"
              /\ tk.response.result = IF h[3].val \in {None, <<>>} THEN Placeholder ELSE h[3].val
              /\ tk.sleeps = <<2, 4>>
              /\ SumSeq(tk.sleeps) >= 6
        /\ \A i \in 1..Len(h) : h[i].ok => i = Len(h) /\ tk.pc = "done" /\ Len(tk.sleeps) = i - 1

C2_Witness ==
    \E t \in Tasks :
        /\ FailFailSuccess(task[t].history)
        /\ task[t].pc = "done"
        /\ task[t].response.result = <<"o", "k">>

\* C3: when the first upstream call fails with an error that carries no
\* rate-limit signal, that call stays the only one, no wait is performed and
\* the invocation ends with its terminal HTTP 500.
C3_NonRateLimitImmediate ==
    \A t \in Tasks :
        LET tk == task[t]
            h == tk.history IN
        (tk.kind = "analyze" /\ Len(h) > 0 /\ ~h[1].ok /\ h[1].val \in OtherErrors) =>
            /\ Len(h) = 1
            /\ tk.sleeps = <<>>
            /\ tk.pc \in {"raise", "done"}
            /\ tk.pc = "done" => tk.response.status = 500

C3_Witness ==
    \E t \in Tasks :
        /\ task[t].pc = "done"
        /\ Len(task[t].history) = 1
        /\ ~task[t].history[1].ok
        /\ task[t].history[1].val \in OtherErrors
        /\ task[t].response.status = 500
        /\ task[t].sleeps = <<>>

\* the request inputs, sorted by hand and not by the code's predicates
BlankPrompts == { <<>>, <<" ", "\t">> }
ImageContentTypes == { <<"i", "m", "a", "g", "e", "/", "x">> }

\* the endpoint's checks have run for the request of slot t
Validated(t) == task[t].kind = "analyze" /\ task[t].pc # "validate"

\* C4 (as stated): every analyze request with an empty or whitespace-only
\* prompt is answered 400 with the empty-prompt message, whatever its content
\* type and declared size.
C4_Original ==
    \A t \in Tasks :
        (Validated(t) /\ task[t].prompt \in BlankPrompts) =>
            /\ task[t].pc = "done"
            /\ task[t].response.status = 400
            /\ task[t].response.detail = DetailEmptyPrompt

\* C4 (amended): every analyze request with an empty or whitespace-only
\* prompt is answered 400; the message is the empty-prompt message when the
\* content type starts with image/ and the declared size is absent, zero or
\* at most 20 MiB.
C4_BlankPromptRejected ==
    \A t \in Tasks :
        (Validated(t) /\ task[t].prompt \in BlankPrompts) =>
            /\ task[t].pc = "done"
            /\ task[t].response.status = 400
            /\ (/\ task[t].content_type \in ImageContentTypes
                /\ (task[t].size = NoSize \/ task[t].size <= 20 * 1024 * 1024))
               => task[t].response.detail = DetailEmptyPrompt

C4_Witness ==
    \E t \in Tasks :
        /\ Validated(t)
        /\ task[t].prompt = <<" ", "\t">>
        /\ task[t].content_type \in ImageContentTypes
        /\ task[t].size = 20 * 1024 * 1024
        /\ task[t].response = HttpError(400, DetailEmptyPrompt)

\* C5: every analyze request whose content type is missing, empty or does
\* not start with image/ is answered 400 with the images-only message,
\* whatever its prompt and declared size.
C5_NonImageRejected ==
    \A t \in Tasks :
        (Validated(t) /\ task[t].content_type \notin ImageContentTypes) =>
            /\ task[t].pc = "done"
            /\ task[t].response.status = 400
            /\ task[t].response.detail = DetailImagesOnly

C5_Witness ==
    \E t \in Tasks :
        /\ Validated(t)
        /\ task[t].content_type = <<"t", "/", "p">>
        /\ task[t].prompt = <<" ", "a", " ">>
        /\ task[t].size = 0
        /\ task[t].response = HttpError(400, DetailImagesOnly)

\* the invocation of slot t has returned a result
Succeeded(t) ==
    /\ task[t].kind = "analyze"
    /\ task[t].pc = "done"
    /\ task[t].response.status = 200

\* C6: a returned result has status success and a non-empty text: the
\* provider's text when that is present and non-empty, the placeholder when
\* it is absent or empty.
C6_ResultNeverEmpty ==
    \A t \in Tasks :
        Succeeded(t) =>
            LET text == task[t].history[Len(task[t].history)].val
                result == task[t].response.result IN
            /\ task[t].response.rstatus = "success"
            /\ result # None /\ Len(result) > 0
            /\ text \in {None, <<>>} => result = Placeholder
            /\ text \notin {None, <<>>} => result = text

C6_Witness ==
    \E t \in Tasks :
        /\ Succeeded(t)
        /\ task[t].history[Len(task[t].history)].val = <<>>
        /\ task[t].response.result = Placeholder

\* C7: once a client has been constructed, every call of get_gemini_client
\* returns that stored client without constructing again: the cache never
\* changes, at most one client is ever constructed, and every handler holds
\* the cached client.
C7_MemoizedOnce ==
    /\ constructions <= 1
    /\ cache # NoClient => constructions = 1
    /\ \A t \in Tasks : task[t].client # NoClient => task[t].client = cache
    /\ (lastCall.made /\ lastCall.cacheBefore # NoClient) =>
          /\ lastCall.hit
          /\ lastCall.ok
          /\ lastCall.handle = lastCall.cacheBefore
          /\ cache = lastCall.cacheBefore

C7_Witness ==
    /\ lastCall.made
    /\ lastCall.hit
    /\ lastCall.handle = cache
    /\ \E t, u \in Tasks : t # u /\ task[t].pc = "read_wait" /\ task[u].pc = "read"
                           /\ task[t].client = task[u].client

\* the configuration read by get_gemini_client is complete
Configured == env.project \notin {None, <<>>} /\ env.location \notin {None, <<>>}

\* C8: a call of get_gemini_client that fails leaves the cache empty, so the
\* next call runs the construction again, and a call made with an empty cache
\* when construction can succeed returns a new client, however many calls
\* failed before.
C8_FailureNotMemoized ==
    /\ constructions = 0 => cache = NoClient
    /\ (lastCall.made /\ ~lastCall.ok) =>
          /\ cache = NoClient
          /\ lastCall.cacheBefore = NoClient
          /\ ~lastCall.hit
          /\ failures > 0
    /\ (lastCall.made /\ lastCall.cacheBefore = NoClient) =>
          /\ ~lastCall.hit
          /\ (Configured /\ lastCall.ctorOk) =>
                lastCall.ok /\ lastCall.handle # NoClient /\ cache = lastCall.handle

C8_Witness ==
    /\ lastCall.made
    /\ lastCall.failuresBefore >= 2
    /\ lastCall.cacheBefore = NoClient
    /\ lastCall.ok
    /\ cache = lastCall.handle

\* the health endpoint has run in slot t
HealthDone(t) == task[t].kind = "gemini_health" /\ task[t].pc = "done"

\* C9: health_check does not raise and returns a boolean that is true
\* exactly when its get_gemini_client call succeeds, that is when a client
\* was memoized or the configuration is complete and the construction
\* succeeds; with project or location absent and nothing memoized it is false.
C9_HealthCheckNeverRaises ==
    \A t \in Tasks :
        HealthDone(t) =>
            /\ ~task[t].health.raised
            /\ task[t].health.value \in BOOLEAN
            /\ lastCall.made
            /\ task[t].health.value = lastCall.ok
            /\ task[t].health.value = (lastCall.cacheBefore # NoClient \/ (Configured /\ lastCall.ctorOk))
            /\ (~Configured /\ lastCall.cacheBefore = NoClient) => task[t].health.value = FALSE

C9_Witness ==
    \E t \in Tasks :
        /\ HealthDone(t)
        /\ env.project = <<"v">>
        /\ env.location = None
        /\ lastCall.ctorOk
        /\ task[t].health = [raised |-> FALSE, value |-> FALSE]

\* C10 (as stated): with project or location absent, the health check
\* returns false and the readiness probe answers 503.
C10_Original ==
    \A t \in Tasks :
        (~Configured /\ task[t].pc = "done") =>
            /\ task[t].kind = "gemini_health" => task[t].health.value = FALSE
            /\ task[t].kind = "readiness" => task[t].response.status = 503

\* C10 (amended): with project or location absent, the health check returns
\* false and the Gemini health endpoint answers 503; the readiness probe does
\* not read the configuration and answers 200 ready unless building its own
\* body fails.
C10_UnconfiguredHealth ==
    \A t \in Tasks :
        (~Configured /\ task[t].pc = "done") =>
            /\ task[t].kind = "gemini_health" =>
                  /\ task[t].health = [raised |-> FALSE, value |-> FALSE]
                  /\ task[t].response.status = 503
            /\ task[t].kind = "readiness" =>
                  /\ task[t].response.status \in {200, 503}
                  /\ task[t].response.status = 503 <=> task[t].last_exception # None
                  /\ task[t].response.status = 200 => task[t].response.rstatus = "ready"

C10_Witness ==
    \E t \in Tasks :
        /\ env.project = <<>>
        /\ env.location = <<"v">>
        /\ HealthDone(t)
        /\ lastCall.ctorOk
        /\ task[t].health.value = FALSE
        /\ task[t].response = HttpError(503, DetailGeminiUnhealthy)

\* C11: while one invocation is in its backoff sleep, every other in-flight
\* invocation can still take its next step: a request waiting for its file
\* read can be resumed.
C11_SleepBlocksOnlySelf ==
    \A t, u \in Tasks :
        (t # u /\ task[t].pc = "sleep" /\ task[u].pc = "read_wait") => ENABLED FileReadResume(u)

\* C12: with several requests in flight, the memoized client is never
\* corrupted: once a constructed client is stored the cache keeps exactly that
\* client, every handler that obtained a client holds a constructed one, the
\* stored one, and every call started afterwards returns the stored one.
C12_CacheNeverCorrupted ==
    /\ [](/\ cache \in 0..constructions
          /\ \A t \in Tasks : task[t].client # NoClient =>
                /\ task[t].client \in 1..constructions
                /\ task[t].client = cache
          /\ (lastCall.made /\ lastCall.cacheBefore # NoClient) =>
                lastCall.ok /\ lastCall.handle = lastCall.cacheBefore)
    /\ [][cache # NoClient => cache' = cache /\ constructions' = constructions]_vars

C12_Witness ==
    \E t, u \in Tasks :
        /\ t # u
        /\ task[t].pc = "read_wait"
        /\ task[u].pc = "read_wait"
        /\ task[t].client = cache
        /\ task[u].client = cache
        /\ cache # NoClient

\* the request of slot t fails one of the endpoint's checks, read off the
\* inputs
Invalid(t) ==
    \/ task[t].content_type \notin ImageContentTypes
    \/ task[t].size > 20 * 1024 * 1024
    \/ task[t].prompt \in BlankPrompts

\* C13: a request that fails validation ends at the endpoint with its 400
\* and has no effect: get_gemini_client is not called, so nothing is
\* constructed and the cache is untouched, the file is not read, and no
\* upstream call or backoff wait is made.
C13_RejectedHasNoEffect ==
    \A t \in Tasks :
        (Validated(t) /\ Invalid(t)) =>
            /\ task[t].pc = "done"
            /\ task[t].response.status = 400
            /\ lastCall = NoCall
            /\ task[t].client = NoClient
            /\ ~task[t].read
            /\ task[t].history = <<>>
            /\ task[t].sleeps = <<>>

C13_Witness ==
    \E t, u \in Tasks :
        /\ Validated(t)
        /\ task[t].content_type \in ImageContentTypes
        /\ task[t].size = 20 * 1024 * 1024 + 1
        /\ task[t].response.status = 400
        /\ task[u].pc = "read_wait"
        /\ cache # NoClient

\* the invocation of slot t ended after an upstream call that failed
FailedUpstream(t) ==
    /\ task[t].kind = "analyze"
    /\ task[t].pc = "done"
    /\ Len(task[t].history) > 0
    /\ ~task[t].history[Len(task[t].history)].ok

\* C14: every failure raised by the retry loop is an HTTP 500 whose message
\* is the analysis-error prefix followed by the description of the error of
\* the last attempt made, not of an earlier one.
C14_LastErrorEmbedded ==
    \A t \in Tasks :
        FailedUpstream(t) =>
            LET last == task[t].history[Len(task[t].history)].val IN
            /\ task[t].response.status = 500
            /\ task[t].response.detail = PrefixAnalyzeError \o last
            /\ Contains(task[t].response.detail, last)
            /\ task[t].last_exception = last

C14_Witness ==
    \E t \in Tasks :
        /\ FailedUpstream(t)
        /\ Len(task[t].history) = 2
        /\ task[t].history[1].val = <<"4", "2", "9", " ", "q">>
        /\ task[t].history[2].val = <<"5", "0", "0">>
        /\ task[t].response.detail = PrefixAnalyzeError \o <<"5", "0", "0">>

\* the get_gemini_client call of the running handler found the cache empty
\* and could not construct: configuration incomplete or genai.Client failing
ConstructionFails == lastCall.made /\ lastCall.cacheBefore = NoClient /\ (~Configured \/ ~lastCall.ctorOk)

\* C15: when the construction fails as analyze_image obtains the client, the
\* invocation ends at once with the client-init HTTP 500: the construction is
\* tried once, the file is not read, and no upstream call or wait is made.
C15_InitErrorPropagates ==
    \A t \in Tasks :
        (task[t].kind = "analyze" /\ running = t /\ ConstructionFails) =>
            /\ task[t].pc = "done"
            /\ task[t].response.status = 500
            /\ StartsWith(task[t].response.detail, PrefixInitError)
            /\ task[t].client = NoClient
            /\ cache = NoClient
            /\ lastCall.failuresBefore < MaxFailures => failures = lastCall.failuresBefore + 1
            /\ ~task[t].read
            /\ task[t].history = <<>>
            /\ task[t].sleeps = <<>>

C15_Witness ==
    \E t \in Tasks :
        /\ task[t].kind = "analyze"
        /\ running = t
        /\ ConstructionFails
        /\ env.location = None
        /\ env.project = <<"v">>
        /\ task[t].response = HttpError(500, PrefixInitError \o ErrNoLocation)

\* C16: the endpoint answers with the first failing check in the order
\* content type, declared size, prompt; a request that fails none of them is
\* passed on to the service.
C16_ChecksInOrder ==
    \A t \in Tasks :
        Validated(t) =>
            LET badType == task[t].content_type \notin ImageContentTypes
                badSize == task[t].size > 20 * 1024 * 1024
                badPrompt == task[t].prompt \in BlankPrompts IN
            /\ badType => task[t].response = HttpError(400, DetailImagesOnly)
            /\ (~badType /\ badSize) => task[t].response = HttpError(400, DetailTooLarge)
            /\ (~badType /\ ~badSize /\ badPrompt) => task[t].response = HttpError(400, DetailEmptyPrompt)
            /\ (~badType /\ ~badSize /\ ~badPrompt) => task[t].response.status # 400

C16_Witness ==
    \E t \in Tasks :
        /\ Validated(t)
        /\ task[t].content_type \in ImageContentTypes
        /\ task[t].size = 20 * 1024 * 1024 + 1
        /\ task[t].prompt = <<>>
        /\ task[t].response = HttpError(400, DetailTooLarge)

\* C17: a failure carrying the rate-limit marker ends the invocation only
\* when it is the third attempt's; on the first or second attempt it is
\* followed by a backoff wait and then another attempt.  A failure without
\* the marker is the last attempt of its invocation.
C17_MarkerDecidesRetry ==
    \A t \in Tasks :
        LET tk == task[t]
            h == tk.history IN
        \A i \in 1..Len(h) :
            ~h[i].ok =>
                /\ (h[i].val \in RateLimitErrors /\ i < 3) =>
                      \/ i < Len(h) /\ Len(tk.sleeps) >= i
                      \/ i = Len(h) /\ tk.pc = "sleep" /\ Len(tk.sleeps) = i - 1
                      \/ i = Len(h) /\ tk.pc = "call" /\ Len(tk.sleeps) = i
                /\ (h[i].val \in RateLimitErrors /\ i >= 3) =>
                      i = 3 /\ i = Len(h) /\ tk.pc \in {"raise", "done"}
                /\ h[i].val \in OtherErrors =>
                      i = Len(h) /\ tk.pc \in {"raise", "done"}

C17_Witness ==
    \E t \in Tasks :
        /\ task[t].pc = "done"
        /\ Len(task[t].history) = 3
        /\ task[t].history[1].val = <<"x", " ">> \o MarkerExhausted
        /\ task[t].history[2].val = <<"4", "2", "9", " ", "q">>
        /\ ~task[t].history[3].ok
        /\ task[t].history[3].val = <<"4", "2", " ", "9">>
        /\ task[t].response.status = 500

\* C18: for an image upload the endpoint answers with the too-large 400
\* exactly when a declared size is available and greater than
\* 20 * 1024 * 1024: 20 MiB itself passes, 20 MiB + 1 is rejected, and an
\* unavailable size is not rejected.
C18_SizeCeiling ==
    \A t \in Tasks :
        (Validated(t) /\ task[t].content_type \in ImageContentTypes) =>
            /\ task[t].response = HttpError(400, DetailTooLarge)
                  <=> (task[t].size # NoSize /\ task[t].size > 20971520)
            /\ task[t].size = 20971520 => task[t].response.detail # DetailTooLarge
            /\ task[t].size = 20971521 => task[t].response = HttpError(400, DetailTooLarge)
            /\ task[t].size = NoSize => task[t].response.detail # DetailTooLarge

C18_Witness ==
    \E t \in Tasks :
        /\ Validated(t)
        /\ task[t].content_type \in ImageContentTypes
        /\ task[t].size = 20971520
        /\ task[t].prompt = <<" ", "a", " ">>
        /\ task[t].pc = "get_client"

\* C19: the i-th backoff wait of an invocation, which follows the rate-limit
\* failure of 0-based attempt i - 1, lasts 2 * 2^(i-1) time-units; no wait
\* exceeds 8 and the waits of one invocation sum to at most 14.
C19_BackoffDelays ==
    \A t \in Tasks :
        LET tk == task[t] IN
        /\ \A i \in 1..Len(tk.sleeps) :
              /\ tk.sleeps[i] = 2 * 2 ^ (i - 1)
              /\ tk.sleeps[i] <= 8
              /\ ~tk.history[i].ok /\ tk.history[i].val \in RateLimitErrors
        /\ tk.pc = "sleep" =>
              /\ tk.attempt = Len(tk.sleeps)
              /\ tk.retry_delay = 2 * 2 ^ tk.attempt
              /\ tk.retry_delay <= 8
        /\ SumSeq(tk.sleeps) <= 14

C19_Witness ==
    \E t \in Tasks :
        /\ task[t].pc = "call"
        /\ task[t].attempt = 2
        /\ task[t].sleeps = <<2, 4>>

\* the steps of the retry loop of slot t; the handler runs them on the thread
\* it holds, each upstream call returns or raises and each sleep ends
LoopStep(t) ==
    \/ \E text \in Texts : GenerateSuccess(t, text)
    \/ \E error_str \in ErrorStrings : GenerateFailure(t, error_str)
    \/ Sleep(t)
    \/ RaiseTerminal(t)

LiveSpec == Spec /\ \A t \in Tasks : WF_vars(LoopStep(t))

\* C20: an invocation that entered the retry loop ends, whatever the
\* upstream answers, with a result or an HTTP 500 after 1 to 3 upstream
\* calls; at no point has it made more than 3 calls, and when it ends it has
\* waited at most once less than it has called: every wait was followed by
\* another call.
C20_LoopTerminates ==
    /\ [](\A t \in Tasks :
            /\ Len(task[t].history) <= 3
            /\ (task[t].kind = "analyze" /\ task[t].pc \in {"raise", "done"} /\ task[t].read) =>
                  /\ Len(task[t].history) >= 1
                  /\ Len(task[t].sleeps) <= Len(task[t].history) - 1
            /\ (task[t].kind = "analyze" /\ task[t].pc = "done" /\ task[t].read) =>
                  task[t].response.status \in {200, 500})
    /\ \A t \in Tasks : (task[t].pc = "call") ~> (task[t].pc = "done")

C20_Witness ==
    \E t \in Tasks :
        /\ task[t].kind = "analyze"
        /\ task[t].pc = "done"
        /\ task[t].read
        /\ Len(task[t].history) = 3
        /\ Len(task[t].sleeps) = 2
        /\ task[t].response.status = 500
====
